---------------------------- MODULE Spec2Model ----------------------------
(***************************************************************************)
(* BoundarySafe (src/src/boundarysafe.py): exact point-in-polygon lookup,  *)
(* disk sampling and the Monte Carlo answer/abstain decision.              *)
(*                                                                         *)
(* Geometry.  The plane is a lattice whose unit is half a grid cell; a     *)
(* polygon is a union of closed grid cells, cell <<cx, cy>> being the      *)
(* square [2cx, 2cx+2] x [2cy, 2cy+2].  Lengths are kept in millimetres    *)
(* (UnitMM per lattice unit), probabilities as exact fractions, the        *)
(* reported confidence in ten-thousandths (round(p, 4)) and the reported   *)
(* distance in millimetres rounded to the centimetre (round(d, 2)).        *)
(* An optional value (Python None or a value) is <<>> or <<v>>.            *)
(***************************************************************************)
EXTENDS Integers, Sequences, FiniteSets, TLC

\* ------------------------------------------------------------------ bounds
MaxSamples == 3          \* n_samples ranges over 0..MaxSamples
GenMod == 8              \* number of states of a random generator
UnitMM == 1234           \* millimetres per lattice unit
MaxX == 6                \* query points have 0 <= x <= MaxX
MaxY == 3                \* query points have 0 <= y <= MaxY

\* ------------------------------------------------------- program constants
EPSG == 2163             \* required projection
DefaultSeed == 42        \* seed of the generator made when rng is None
ConfDigits == 4          \* round(p_top, 4)
DistDigits == 2          \* round(dist_orig, 2)

None == <<>>
Some(v) == <<v>>
Val(o) == o[1]

RECURSIVE Pow10(_)
Pow10(d) == IF d = 0 THEN 1 ELSE 10 * Pow10(d - 1)

Min(S) == CHOOSE m \in S : \A e \in S : m <= e
Max(S) == CHOOSE m \in S : \A e \in S : m >= e

\* Python round() of the fraction num/den (den > 0, num >= 0) to a whole
\* number: nearest, ties to even.
RoundHalfEven(num, den) ==
    LET q == num \div den
        r2 == 2 * (num % den)
    IN  IF r2 < den THEN q
        ELSE IF r2 > den THEN q + 1
        ELSE IF q % 2 = 0 THEN q ELSE q + 1

\* ---------------------------------------------------------------- geometry
InCell(c, p) ==
    /\ 2 * c[1] <= p[1] /\ p[1] <= 2 * c[1] + 2
    /\ 2 * c[2] <= p[2] /\ p[2] <= 2 * c[2] + 2

\* The grid cells whose closure holds the point.
TouchCells(p) ==
    {c \in ((p[1] \div 2 - 1)..(p[1] \div 2)) \X ((p[2] \div 2 - 1)..(p[2] \div 2)) :
        InCell(c, p)}

\* GeoSeries.covers(point): boundary-inclusive.
Covers(geom, p) == \E c \in geom : InCell(c, p)

\* GeoSeries.contains(point): boundary-exclusive, the point is interior.
Contains(geom, p) == TouchCells(p) \subseteq geom

\* Envelope of a polygon, <<minx, miny, maxx, maxy>>.
Bounds(geom) ==
    << 2 * Min({c[1] : c \in geom}), 2 * Min({c[2] : c \in geom}),
       2 * Max({c[1] : c \in geom}) + 2, 2 * Max({c[2] : c \in geom}) + 2 >>

\* Envelope intersection of a polygon with the degenerate box of a point.
BoundsHit(geom, p) ==
    LET b == Bounds(geom)
    IN  b[1] <= p[1] /\ p[1] <= b[3] /\ b[2] <= p[2] /\ p[2] <= b[4]

\* Lattice points of the boundary curve of a polygon.  The nearest boundary
\* point to a lattice point is itself a lattice point, edges being
\* axis-parallel with lattice endpoints.
BoundaryPoints(geom) ==
    LET b == Bounds(geom)
    IN  {q \in (b[1]..b[3]) \X (b[2]..b[4]) : Covers(geom, q) /\ ~Contains(geom, q)}

ISqrt(n) == CHOOSE r \in 0..n : r * r <= n /\ (r + 1) * (r + 1) > n

\* boundary.distance(point), in millimetres.
BoundaryDistance(boundary, p) ==
    LET D2(q) == (q[1] - p[1]) * (q[1] - p[1]) + (q[2] - p[2]) * (q[2] - p[2])
    IN  ISqrt(Min({D2(q) : q \in boundary})) * UnitMM

\* ---------------------------------------------------------------- fixtures
\* A row of a GeoDataFrame: its attribute columns, its geometry and the
\* boundary of the geometry.
\* A GeoDataFrame: crs (None or an EPSG code), rows, and sindex, the order
\* in which the spatial index reports rows.
Row(attrs, cells) ==
    [attrs |-> attrs, geometry |-> cells, boundary |-> BoundaryPoints(cells)]

CountyRows ==
    << Row([GEOID |-> "36061"], {<<0, 0>>, <<1, 0>>, <<0, 1>>}),
       Row([GEOID |-> "36047"], {<<2, 0>>}),
       Row([GEOID |-> "36081"], {<<2, 1>>}) >>

ZctaRows ==
    << Row([ZCTA5CE20 |-> "10001", GEOID |-> "x"],
           {<<0, 0>>, <<1, 0>>, <<0, 1>>, <<1, 1>>}),
       Row([ZCTA5CE20 |-> "10002", GEOID |-> "y"], {<<2, 0>>, <<2, 1>>}) >>

GdfDictA ==
    [ county |-> [crs |-> Some(EPSG), rows |-> CountyRows, sindex |-> <<1, 2, 3>>],
      zcta   |-> [crs |-> Some(EPSG), rows |-> CountyRows, sindex |-> <<1, 2, 3>>],
      tract  |-> [crs |-> None, rows |-> CountyRows, sindex |-> <<1, 2, 3>>],
      state  |-> [crs |-> Some(EPSG), rows |-> CountyRows, sindex |-> <<1, 2, 3>>] ]

GdfDictB ==
    [ county |-> [crs |-> Some(4326), rows |-> CountyRows, sindex |-> <<1, 2, 3>>],
      zcta   |-> [crs |-> Some(EPSG), rows |-> ZctaRows, sindex |-> <<2, 1>>] ]

\* The <<layer, gdf_dict>> pairs a caller passes: two sound ones, then a
\* collection without CRS, one in another CRS, one without its identifier
\* column, an unsupported layer name, a layer missing from the dictionary.
Configs ==
    { <<"county", "A">>, <<"zcta", "B">>,
      <<"tract", "A">>, <<"county", "B">>, <<"zcta", "A">>,
      <<"state", "A">>, <<"place", "A">> }

\* The dictionary an argument names.
Gdfs(name) == IF name = "A" THEN GdfDictA ELSE GdfDictB

Columns(gdf) ==
    IF Len(gdf.rows) = 0 THEN {"geometry"}
    ELSE DOMAIN gdf.rows[1].attrs \cup {"geometry"}

\* ------------------------------------------------------------ _check_crs
\* "ok" or the exception raised.
CheckCrs(gdf) ==
    IF gdf.crs = None THEN "ValueError"
    ELSE IF Val(gdf.crs) # EPSG THEN "ValueError"
    ELSE "ok"

\* ----------------------------------------------------------- exact_lookup
IdCol == [county |-> "GEOID", zcta |-> "ZCTA5CE20", tract |-> "GEOID"]

Absent == [raise |-> "none", label |-> None, dist |-> None]
Raise(e) == [raise |-> e, label |-> None, dist |-> None]

\* Line 62: rows whose envelope meets the point, in spatial-index order.
PossibleIdx(gdf, point) ==
    LET Hit(i) == BoundsHit(gdf.rows[i].geometry, point)
    IN  SelectSeq(gdf.sindex, Hit)

\* Faulty variant: the boundary-exclusive test in place of covers().
CoversMatchesStrict(gdf, possible_idx, point) ==
    LET Con(i) == Contains(gdf.rows[i].geometry, point)
    IN  SelectSeq(possible_idx, Con)

\* possible[possible.covers(point)]
CoversMatches(gdf, possible_idx, point) ==
    LET Cov(i) == Covers(gdf.rows[i].geometry, point)
    IN  SelectSeq(possible_idx, Cov)

\* possible[possible.contains(point)]
ContainsMatches(gdf, possible_idx, point) ==
    LET Con(i) == Contains(gdf.rows[i].geometry, point)
    IN  SelectSeq(possible_idx, Con)

\* Lines 73-74: contains() only when covers() matched nothing.
WithFallback(covering, gdf, possible_idx, point) ==
    IF Len(covering) = 0 THEN ContainsMatches(gdf, possible_idx, point)
    ELSE covering

\* Lines 70-74.
Matches(gdf, possible_idx, point) ==
    WithFallback(CoversMatches(gdf, possible_idx, point), gdf, possible_idx, point)

\* Lines 79-85: label and distance of a matched row.
Matched(match, id_col, point) ==
    [raise |-> "none",
     label |-> Some(match.attrs[id_col]),
     dist  |-> Some(BoundaryDistance(match.boundary, point))]

\* Lines 76-85.
FirstMatch(gdf, matches, id_col, point) ==
    IF Len(matches) = 0 THEN Absent
    ELSE Matched(gdf.rows[matches[1]], id_col, point)

\* Lines 63-85.
Resolve(gdf, possible_idx, id_col, point) ==
    IF Len(possible_idx) = 0 THEN Absent
    ELSE FirstMatch(gdf, Matches(gdf, possible_idx, point), id_col, point)

\* Faulty variant: the identifier column checked only once a polygon matched.
LookupInLate(gdf, id_col, point) ==
    IF Len(Matches(gdf, PossibleIdx(gdf, point), point)) = 0 THEN Absent
    ELSE IF id_col \notin Columns(gdf) THEN Raise("ValueError")
    ELSE Resolve(gdf, PossibleIdx(gdf, point), id_col, point)

\* Lines 54-85.
LookupIn(gdf, id_col, point) ==
    IF id_col \notin Columns(gdf) THEN Raise("ValueError")
    ELSE Resolve(gdf, PossibleIdx(gdf, point), id_col, point)

ExactLookup(x_m, y_m, layer, gdf_dict) ==
    IF layer \notin DOMAIN Gdfs(gdf_dict) THEN Raise("KeyError")
    ELSE IF layer \notin DOMAIN IdCol THEN Raise("KeyError")
    ELSE LookupIn(Gdfs(gdf_dict)[layer], IdCol[layer], <<x_m, y_m>>)

\* ------------------------------------------------------ random generator
\* A generator is a state in 0..GenMod-1; a draw reads the state and steps
\* it.  np.random.default_rng(seed) fixes the state from the seed alone.
DefaultRng(seed) == seed % GenMod
GenStep(s) == (5 * s + 3) % GenMod

RECURSIVE GenStates(_, _)
\* The n states read by n successive draws from state s.
GenStates(s, n) == IF n = 0 THEN <<>> ELSE <<s>> \o GenStates(GenStep(s), n - 1)

RECURSIVE GenAfter(_, _)
GenAfter(s, n) == IF n = 0 THEN s ELSE GenAfter(GenStep(s), n - 1)

\* rng.uniform(0, 2*pi, n): angles as multiples of pi/2.
UniformAngle(s, n) == [k \in 1..n |-> GenStates(s, n)[k] % 4]
\* rng.uniform(0, 1, n): u is 0 or 1/4, given as 2*sqrt(u), 0 or 1.
UniformUnitRoot(s, n) == [k \in 1..n |-> (GenStates(s, n)[k] \div 4) % 2]

Cos == <<1, 0, -1, 0>>
Sin == <<0, 1, 0, -1>>

\* ------------------------------------------------------------ sample_disk
\* The sample arrays and the generator state left behind.
SampleDisk(x_m, y_m, radius_m, n, rng) ==
    LET theta == UniformAngle(rng, n)
        rng1 == GenAfter(rng, n)
        root == UniformUnitRoot(rng1, n)
        r == [k \in 1..n |-> (radius_m * root[k]) \div 2]
    IN  [x_samples |-> [k \in 1..n |-> x_m + r[k] * Cos[theta[k] + 1]],
         y_samples |-> [k \in 1..n |-> y_m + r[k] * Sin[theta[k] + 1]],
         rng |-> GenAfter(rng1, n)]

\* ------------------------------------------------------------------ Counter
\* A Counter keeps its keys in insertion order: a sequence of [label, count].
HasKey(counts, label) == \E i \in 1..Len(counts) : counts[i].label = label

\* counts[label] += 1
Increment(counts, label) ==
    IF HasKey(counts, label)
    THEN [i \in 1..Len(counts) |->
            IF counts[i].label = label
            THEN [counts[i] EXCEPT !.count = @ + 1] ELSE counts[i]]
    ELSE Append(counts, [label |-> label, count |-> 1])

RECURSIVE SumCounts(_)
\* sum(counts.values())
SumCounts(counts) ==
    IF Len(counts) = 0 THEN 0 ELSE Head(counts).count + SumCounts(Tail(counts))

\* Faulty variant: the last entry with the largest count.
FirstMaxLast(counts) ==
    CHOOSE i \in 1..Len(counts) :
        /\ \A j \in 1..Len(counts) : counts[j].count <= counts[i].count
        /\ \A j \in (i + 1)..Len(counts) : counts[j].count < counts[i].count

\* Index of the first entry with the largest count.
FirstMax(counts) ==
    CHOOSE i \in 1..Len(counts) :
        /\ \A j \in 1..Len(counts) : counts[j].count <= counts[i].count
        /\ \A j \in 1..(i - 1) : counts[j].count < counts[i].count

Remove(s, i) == SubSeq(s, 1, i - 1) \o SubSeq(s, i + 1, Len(s))

RECURSIVE MostCommon(_, _)
\* Counter.most_common(n): the n entries of largest count, largest first,
\* entries of equal count in insertion order.
MostCommon(counts, n) ==
    IF n = 0 \/ Len(counts) = 0 THEN <<>>
    ELSE LET i == FirstMax(counts)
         IN  <<counts[i]>> \o MostCommon(Remove(counts, i), n - 1)

\* ----------------------------------------------------------------- Outcome
Frac(num, den) == [num |-> num, den |-> den]

\* round(num/den, digits), in units of 10^-digits.
RoundFrac(num, den, digits) == RoundHalfEven(num * Pow10(digits), den)

\* round(d, 2) of a distance in millimetres, in millimetres.
RoundDist(mm) == 10 * RoundHalfEven(mm * Pow10(DistDigits), 1000)

\* Faulty variant: the threshold applied to the rounded confidence.
MeetsThresholdRounded(top_count, total, p_thresh) ==
    RoundFrac(top_count, total, ConfDigits) * p_thresh.den
        >= p_thresh.num * Pow10(ConfDigits)

\* Faulty variant: the comparison turned round.
MeetsThresholdInverted(top_count, total, p_thresh) ==
    top_count * p_thresh.den <= p_thresh.num * total

\* p_top >= p_thresh on the unrounded fraction.
MeetsThreshold(top_count, total, p_thresh) ==
    top_count * p_thresh.den >= p_thresh.num * total

\* Faulty variant: a distance of 0.0 reported on error.
ErrorOutcomeZeroDist ==
    [label_id |-> None, confidence |-> Some(0), dist_to_boundary_m |-> Some(0),
     status |-> "error", candidates |-> <<>>]

\* Lines 142-148.
ErrorOutcome ==
    [label_id |-> None, confidence |-> Some(0), dist_to_boundary_m |-> None,
     status |-> "error", candidates |-> <<>>]

\* Faulty variant: the distance rounded as in the other branches.
EmptyTallyOutcomeRounded(label_orig, dist_orig) ==
    [label_id |-> label_orig, confidence |-> Some(Pow10(ConfDigits)),
     dist_to_boundary_m |-> Some(RoundDist(Val(dist_orig))), status |-> "answer",
     candidates |-> << <<Val(label_orig), Frac(1, 1)>> >>]

\* Lines 160-166.
EmptyTallyOutcome(label_orig, dist_orig) ==
    [label_id |-> label_orig, confidence |-> Some(Pow10(ConfDigits)),
     dist_to_boundary_m |-> dist_orig, status |-> "answer",
     candidates |-> << <<Val(label_orig), Frac(1, 1)>> >>]

\* Faulty variant: shares taken over all n_samples, absent samples included.
DecideOverAllSamples(counts, label_orig, dist_orig, n_samples, p_thresh) ==
    IF Len(counts) = 0 THEN EmptyTallyOutcome(label_orig, dist_orig)
    ELSE
    LET top == MostCommon(counts, 1)[1]
        two == MostCommon(counts, 2)
        candidates == [i \in 1..Len(two) |-> <<two[i].label, Frac(two[i].count, n_samples)>>]
    IN  [label_id |-> Some(top.label),
         confidence |-> Some(RoundFrac(top.count, n_samples, ConfDigits)),
         dist_to_boundary_m |-> Some(RoundDist(Val(dist_orig))),
         status |-> IF MeetsThreshold(top.count, n_samples, p_thresh)
                    THEN "answer" ELSE "abstain",
         candidates |-> candidates]

\* Lines 159-191: the Outcome from the tally and the original lookup.
Decide(counts, label_orig, dist_orig, n_samples, p_thresh) ==
    IF Len(counts) = 0 THEN EmptyTallyOutcome(label_orig, dist_orig)
    ELSE
    LET total == SumCounts(counts)
        top == MostCommon(counts, 1)[1]
        two == MostCommon(counts, 2)
        candidates == [i \in 1..Len(two) |-> <<two[i].label, Frac(two[i].count, total)>>]
    IN  [label_id |-> Some(top.label),
         confidence |-> Some(RoundFrac(top.count, total, ConfDigits)),
         dist_to_boundary_m |-> Some(RoundDist(Val(dist_orig))),
         status |-> IF MeetsThreshold(top.count, total, p_thresh)
                    THEN "answer" ELSE "abstain",
         candidates |-> candidates]

\* ------------------------------------------------------------ the program
\* Generator objects: the caller's own generator, numpy's process-wide
\* generator, and the generator a call makes for itself (None outside a
\* call that made one).
GenRead(h, ref) == IF ref = "local" THEN Val(h.local) ELSE h[ref]
GenWrite(h, ref, s) ==
    IF ref = "local" THEN [h EXCEPT !.local = Some(s)] ELSE [h EXCEPT ![ref] = s]

\* Faulty variant: the process-wide generator when rng is None.
ResolveRngGlobal(rng, h) ==
    IF rng = "None" THEN [ref |-> "global", heap |-> h]
    ELSE [ref |-> rng, heap |-> h]

\* Lines 132-133: the generator object the call draws from.
ResolveRng(rng, h) ==
    IF rng = "None"
    THEN [ref |-> "local", heap |-> [h EXCEPT !.local = Some(DefaultRng(DefaultSeed))]]
    ELSE [ref |-> rng, heap |-> h]

Radii == {2}
Thresholds == {Frac(1, 2), Frac(6667, 10000)}
Seeds == {DefaultSeed, 7}
RngArgs == {"None", "caller"}

VARIABLES
    pc,          \* position of the call: idle, entry, exact, sample, loop,
                 \* aggregate, done, raised
    args,        \* arguments of the call in progress
    heap,        \* states of the generator objects
    entry,       \* state of the caller's generator when the call began
    rngRef,      \* the generator object the call draws from
    label_orig,  \* result of the exact lookup of the original point
    dist_orig,
    samples,     \* sequence of perturbed points
    k,           \* number of samples resolved so far
    counts,      \* the tally
    result,      \* the returned Outcome, None before the return
    raised,      \* the exception raised, "none" if none
    log,         \* resolver and sampler invocations of the call, in order:
                 \* <<"exact_lookup", point, label>> or <<"sample_disk">>
    prev         \* the previous call that returned an Outcome, kept for
                 \* as long as the caller repeats its query

vars == <<pc, args, heap, entry, rngRef, label_orig, dist_orig, samples, k,
          counts, result, raised, log, prev>>

NoArgs == <<>>
Out == Val(result)

Init ==
    /\ pc = "idle"
    /\ args = NoArgs
    /\ heap = [caller |-> DefaultRng(DefaultSeed), global |-> 0, local |-> None]
    /\ entry = 0
    /\ rngRef = "none"
    /\ label_orig = None
    /\ dist_orig = None
    /\ samples = <<>>
    /\ k = 0
    /\ counts = <<>>
    /\ result = None
    /\ raised = "none"
    /\ log = <<>>
    /\ prev = None

\* The caller invokes boundarysafe_lookup on a new query.
Call ==
    /\ pc = "idle"
    /\ prev = None
    /\ \E x \in 0..MaxX, y \in 0..MaxY, cfg \in Configs, radius \in Radii,
          n \in 0..MaxSamples, p \in Thresholds, rng \in RngArgs :
        args' = [x_m |-> x, y_m |-> y, layer |-> cfg[1], gdf_dict |-> cfg[2],
                 gps_radius_m |-> radius, n_samples |-> n, p_thresh |-> p,
                 rng |-> rng]
    /\ pc' = "entry"
    /\ entry' = heap.caller
    /\ UNCHANGED <<heap, rngRef, label_orig, dist_orig, samples, k, counts,
                   result, raised, log, prev>>

\* The caller repeats the previous query, with any threshold and either
\* its own generator or none.
Recall ==
    /\ pc = "idle"
    /\ prev # None
    /\ \E p \in Thresholds, rng \in RngArgs :
        args' = [Val(prev).args EXCEPT !.p_thresh = p, !.rng = rng]
    /\ pc' = "entry"
    /\ entry' = heap.caller
    /\ UNCHANGED <<heap, rngRef, label_orig, dist_orig, samples, k, counts,
                   result, raised, log, prev>>

\* The caller replaces its generator by np.random.default_rng(seed).
Reseed ==
    /\ pc = "idle"
    /\ \E seed \in Seeds : heap' = [heap EXCEPT !.caller = DefaultRng(seed)]
    /\ UNCHANGED <<pc, args, entry, rngRef, label_orig, dist_orig, samples, k,
                   counts, result, raised, log, prev>>

\* Lines 132-136: default generator, gdf_dict[layer], _check_crs.
Enter ==
    /\ pc = "entry"
    /\ LET r == ResolveRng(args.rng, heap)
       IN  /\ rngRef' = r.ref
           /\ heap' = r.heap
    /\ IF args.layer \notin DOMAIN Gdfs(args.gdf_dict)
       THEN /\ raised' = "KeyError" /\ pc' = "raised"
       ELSE LET c == CheckCrs(Gdfs(args.gdf_dict)[args.layer])
            IN  IF c # "ok"
                THEN /\ raised' = c /\ pc' = "raised"
                ELSE /\ raised' = raised /\ pc' = "exact"
    /\ UNCHANGED <<args, entry, label_orig, dist_orig, samples, k, counts,
                   result, log, prev>>

\* Faulty variant: no early return when the original point is absent.
ExactOrigFallThrough ==
    /\ pc = "exact"
    /\ \E e \in {ExactLookup(args.x_m, args.y_m, args.layer, args.gdf_dict)} :
        /\ log' = Append(log, <<"exact_lookup", <<args.x_m, args.y_m>>, e.label>>)
        /\ IF e.raise # "none"
           THEN /\ raised' = e.raise /\ pc' = "raised"
                /\ UNCHANGED <<label_orig, dist_orig, result>>
           ELSE /\ label_orig' = e.label /\ dist_orig' = e.dist /\ pc' = "sample"
                /\ UNCHANGED <<result, raised>>
    /\ UNCHANGED <<args, heap, entry, rngRef, samples, k, counts, prev>>

\* Lines 138-148: exact lookup of the original point.
ExactOrig ==
    /\ pc = "exact"
    /\ \E e \in {ExactLookup(args.x_m, args.y_m, args.layer, args.gdf_dict)} :
        /\ log' = Append(log, <<"exact_lookup", <<args.x_m, args.y_m>>, e.label>>)
        /\ IF e.raise # "none"
           THEN /\ raised' = e.raise /\ pc' = "raised"
                /\ UNCHANGED <<label_orig, dist_orig, result>>
           ELSE IF e.label = None
           THEN /\ result' = Some(ErrorOutcome) /\ pc' = "done"
                /\ UNCHANGED <<label_orig, dist_orig, raised>>
           ELSE /\ label_orig' = e.label /\ dist_orig' = e.dist /\ pc' = "sample"
                /\ UNCHANGED <<result, raised>>
    /\ UNCHANGED <<args, heap, entry, rngRef, samples, k, counts, prev>>

\* Lines 150-153: sample_disk and the empty Counter.
Sample ==
    /\ pc = "sample"
    /\ \E s \in {SampleDisk(args.x_m, args.y_m, args.gps_radius_m, args.n_samples,
                           GenRead(heap, rngRef))} :
           /\ samples' = [i \in 1..args.n_samples |-> <<s.x_samples[i], s.y_samples[i]>>]
           /\ heap' = GenWrite(heap, rngRef, s.rng)
    /\ log' = Append(log, <<"sample_disk">>)
    /\ counts' = <<>>
    /\ k' = 0
    /\ pc' = "loop"
    /\ UNCHANGED <<args, entry, rngRef, label_orig, dist_orig, result, raised, prev>>

\* Lines 154-157: one turn of the loop over the samples.
ResolveSample ==
    /\ pc = "loop"
    /\ k < Len(samples)
    /\ \E e \in {ExactLookup(samples[k + 1][1], samples[k + 1][2],
                                args.layer, args.gdf_dict)} :
           /\ log' = Append(log, <<"exact_lookup", samples[k + 1], e.label>>)
           /\ IF e.raise # "none"
              THEN /\ raised' = e.raise /\ pc' = "raised" /\ counts' = counts
              ELSE /\ counts' = IF e.label # None
                                THEN Increment(counts, Val(e.label)) ELSE counts
                   /\ UNCHANGED <<raised, pc>>
    /\ k' = k + 1
    /\ UNCHANGED <<args, heap, entry, rngRef, label_orig, dist_orig, samples,
                   result, prev>>

\* Lines 159-191: the loop is over; aggregate, decide and return.
Aggregate ==
    /\ pc = "loop"
    /\ k = Len(samples)
    /\ result' = Some(Decide(counts, label_orig, dist_orig, args.n_samples,
                             args.p_thresh))
    /\ pc' = "done"
    /\ UNCHANGED <<args, heap, entry, rngRef, label_orig, dist_orig, samples, k,
                   counts, raised, log, prev>>

\* The call's locals are gone.
Unwind ==
    /\ pc' = "idle"
    /\ args' = NoArgs
    /\ heap' = [heap EXCEPT !.local = None]
    /\ entry' = 0
    /\ rngRef' = "none"
    /\ label_orig' = None
    /\ dist_orig' = None
    /\ samples' = <<>>
    /\ k' = 0
    /\ counts' = <<>>
    /\ result' = None
    /\ raised' = "none"
    /\ log' = <<>>

\* The call is over: the caller has the Outcome or the exception.
Return ==
    /\ pc \in {"done", "raised"}
    /\ prev' = None
    /\ Unwind

\* The call is over and the caller keeps its Outcome to compare the next
\* call with.
ReturnKept ==
    /\ pc = "done"
    /\ prev' = Some([args |-> args, entry |-> entry, samples |-> samples,
                     result |-> Out])
    /\ Unwind

Next ==
    \/ Call
    \/ Reseed
    \/ Enter
    \/ ExactOrig
    \/ Sample
    \/ ResolveSample
    \/ Aggregate
    \/ Return

\* One call after another, each on a query of its own.
Spec == Init /\ [][Next]_vars

NextPair ==
    \/ Next
    \/ Recall
    \/ ReturnKept

\* The same, the caller also repeating queries and comparing Outcomes.
PairSpec == Init /\ [][NextPair]_vars

\* ================================================================== claims
\* What a returned Outcome is measured against: the labels the resolver gave
\* the samples, read off the log of the call (the original lookup, the
\* sampler, then one lookup per sample).
Returned == pc = "done"
Resolved == Returned /\ label_orig # None

SampleLabel(i) == log[2 + i][3]
Labelled == {i \in 1..Len(samples) : SampleLabel(i) # None}
TallyLabels == {Val(SampleLabel(i)) : i \in Labelled}
CountOf(l) == Cardinality({i \in Labelled : SampleLabel(i) = Some(l)})
FirstSeen(l) == Min({i \in Labelled : SampleLabel(i) = Some(l)})
TopCount == Max({CountOf(l) : l \in TallyLabels})

RECURSIVE CandNumSum(_)
CandNumSum(c) == IF Len(c) = 0 THEN 0 ELSE Head(c)[2].num + CandNumSum(Tail(c))

\* Sum of the candidate probabilities = 1, the candidates of one Outcome
\* sharing their denominator.
CandidatesSumToOne(c) == Len(c) > 0 /\ CandNumSum(c) = c[1][2].den

\* C1 as stated: when the exact lookup of the original point finds no
\* polygon, the Outcome has status "error", no label, no confidence, no
\* distance and no candidates.
C1_Original ==
    (Returned /\ label_orig = None) =>
        /\ Out.status = "error"
        /\ Out.label_id = None
        /\ Out.confidence = None
        /\ Out.dist_to_boundary_m = None
        /\ Out.candidates = <<>>

\* C1 amended: when the exact lookup of the original point finds no polygon,
\* the Outcome has status "error", no label, confidence 0.0, no distance and
\* no candidates.
C1_ErrorOutcome ==
    (Returned /\ label_orig = None) =>
        /\ Out.status = "error"
        /\ Out.label_id = None
        /\ Out.confidence = Some(0)
        /\ Out.dist_to_boundary_m = None
        /\ Out.candidates = <<>>

C1_Witness ==
    /\ Returned /\ label_orig = None
    /\ log = << <<"exact_lookup", <<args.x_m, args.y_m>>, None>> >>

\* C2: with a non-empty tally the status is "answer" exactly when
\* top_count/total >= p_thresh on the unrounded fraction, total counting the
\* labelled samples only, and "abstain" otherwise; the label is a most
\* frequent one.
C2_Decision ==
    (Resolved /\ Labelled # {}) =>
        /\ Out.status \in {"answer", "abstain"}
        /\ Out.status = "answer" <=>
             TopCount * args.p_thresh.den >= args.p_thresh.num * Cardinality(Labelled)
        /\ Out.label_id # None
        /\ Val(Out.label_id) \in TallyLabels
        /\ CountOf(Val(Out.label_id)) = TopCount

\* The rounded confidence meets the threshold, the unrounded fraction does
\* not, and some sample was left out of the total.
C2_Witness ==
    /\ Resolved /\ Labelled # {}
    /\ Out.status = "abstain"
    /\ Val(Out.confidence) * args.p_thresh.den >= args.p_thresh.num * Pow10(ConfDigits)

\* C3: when the original point resolves and every sample is absent (also
\* with no samples at all), the Outcome is "answer" with confidence 1.0, the
\* label and the unrounded distance of the original lookup and the candidate
\* list [[label, 1.0]], for every p_thresh.
C3_EmptyTally ==
    (Resolved /\ Labelled = {}) =>
        /\ Out.status = "answer"
        /\ Out.confidence = Some(Pow10(ConfDigits))
        /\ Out.label_id = log[1][3]
        /\ Out.dist_to_boundary_m = dist_orig
        /\ Out.candidates = << <<Val(log[1][3]), Frac(1, 1)>> >>

C3_Witness ==
    /\ Resolved /\ Labelled = {}
    /\ args.n_samples > 0
    /\ args.p_thresh = Frac(6667, 10000)

\* C4 as stated: whenever the original point resolves, the candidate
\* probabilities sum to 1.0, for any number of distinct labels.
C4_Original == Resolved => CandidatesSumToOne(Out.candidates)

\* C4 amended: whenever the original point resolves, the candidate
\* probabilities are the top two shares of the labelled samples: they sum to
\* 1.0 when the tally has at most two distinct labels (or none), and to
\* less than 1.0, namely (c1 + c2)/total, when it has three or more.
C4_CandidateSum ==
    Resolved =>
        /\ Cardinality(TallyLabels) <= 2 => CandidatesSumToOne(Out.candidates)
        /\ Cardinality(TallyLabels) > 2 =>
             /\ Len(Out.candidates) = 2
             /\ \A j \in 1..2 :
                  /\ Out.candidates[j][2].den = Cardinality(Labelled)
                  /\ Out.candidates[j][2].num = CountOf(Out.candidates[j][1])
             /\ CandNumSum(Out.candidates) < Cardinality(Labelled)

\* Two labels share the labelled samples, one sample being absent.
C4_Witness ==
    /\ Resolved
    /\ Cardinality(TallyLabels) = 2
    /\ Cardinality(Labelled) < args.n_samples

\* A configuration error, read off the arguments: the layer is missing from
\* the dictionary or is not a supported layer, the collection has no CRS or
\* another CRS than EPSG:2163, or it lacks the identifier column.
ConfigError(a) ==
    \/ a.layer \notin DOMAIN Gdfs(a.gdf_dict)
    \/ a.layer \notin {"county", "zcta", "tract"}
    \/ Gdfs(a.gdf_dict)[a.layer].crs # Some(EPSG)
    \/ (IF a.layer = "zcta" THEN "ZCTA5CE20" ELSE "GEOID")
           \notin Columns(Gdfs(a.gdf_dict)[a.layer])

\* C5: with a configuration error the call raises: it gets no further than
\* the original exact lookup, draws nothing from its generator, resolves no
\* sample and returns no Outcome, wherever the original point lies.
C5_FailFast ==
    (pc # "idle" /\ ConfigError(args)) =>
        /\ pc \in {"entry", "exact", "raised"}
        /\ result = None
        /\ samples = <<>>
        /\ Len(log) <= 1
        /\ \A j \in 1..Len(log) : log[j][1] # "sample_disk"
        /\ heap.caller = entry
        /\ rngRef = "local" => heap.local = Some(DefaultRng(DefaultSeed))
        /\ pc = "raised" => raised \in {"KeyError", "ValueError"}

\* The identifier column is missing and the point is outside all coverage.
C5_Witness ==
    /\ pc = "raised" /\ raised = "ValueError"
    /\ Len(log) = 1
    /\ \A i \in 1..Len(Gdfs(args.gdf_dict)[args.layer].rows) :
          ~Covers(Gdfs(args.gdf_dict)[args.layer].rows[i].geometry, log[1][2])

\* C6: a call with the arguments of the previous call and a generator in
\* the same state (rng omitted in both, or the caller's generator in the
\* state it had then) takes the same samples and returns the same Outcome.
C6_Deterministic ==
    (/\ pc \in {"done", "raised"}
     /\ prev # None
     /\ Val(prev).args = args
     /\ (args.rng = "None" \/ Val(prev).entry = entry)) =>
        /\ pc = "done"
        /\ samples = Val(prev).samples
        /\ Out = Val(prev).result

\* rng omitted twice, the earlier call having drawn samples.
C6_Witness ==
    /\ Resolved /\ prev # None
    /\ Val(prev).args = args
    /\ args.rng = "None"
    /\ Labelled # {}

FracLeq(a, b) == a.num * b.den <= b.num * a.den

SameQuery(a, b) ==
    /\ a.x_m = b.x_m /\ a.y_m = b.y_m
    /\ a.layer = b.layer /\ a.gdf_dict = b.gdf_dict
    /\ a.gps_radius_m = b.gps_radius_m /\ a.n_samples = b.n_samples

\* C7: two calls on the same query and the same samples that differ in
\* p_thresh: if the one with the lower threshold abstains, the other does
\* not answer; both report the same label, confidence and candidates.
C7_Monotone ==
    (/\ Returned /\ prev # None
     /\ SameQuery(Val(prev).args, args)
     /\ samples = Val(prev).samples) =>
        /\ (FracLeq(Val(prev).args.p_thresh, args.p_thresh)
               /\ Val(prev).result.status = "abstain") => Out.status # "answer"
        /\ (FracLeq(args.p_thresh, Val(prev).args.p_thresh)
               /\ Out.status = "abstain") => Val(prev).result.status # "answer"
        /\ Out.label_id = Val(prev).result.label_id
        /\ Out.confidence = Val(prev).result.confidence
        /\ Out.candidates = Val(prev).result.candidates

\* The threshold was raised over an abstaining call.
C7_Witness ==
    /\ Returned /\ prev # None
    /\ samples = Val(prev).samples
    /\ ~FracLeq(args.p_thresh, Val(prev).args.p_thresh)
    /\ Val(prev).result.status = "abstain"
    /\ Out.status = "abstain"

\* The rows of the layer in use, by what they do with a point.
RowsOf == Gdfs(args.gdf_dict)[args.layer].rows
Candidates(pt) == {i \in 1..Len(RowsOf) : BoundsHit(RowsOf[i].geometry, pt)}
Covering(pt) == {i \in 1..Len(RowsOf) : Covers(RowsOf[i].geometry, pt)}
Containing(pt) == {i \in 1..Len(RowsOf) : Contains(RowsOf[i].geometry, pt)}
OnEdge(pt) == Covering(pt) \ Containing(pt)
RowId(i) == Some(RowsOf[i].attrs[IdCol[args.layer]])

\* C8: a lookup is absent only when no polygon's envelope meets the point
\* or no candidate covers or contains it; a point on the edge shared by two
\* polygons gets the identifier of one of the two; a polygon that covers
\* the point is taken whenever there is one.
C8_Lookup ==
    (pc # "idle" /\ raised = "none") =>
        \A j \in 1..Len(log) :
            log[j][1] = "exact_lookup" =>
                /\ log[j][3] = None =>
                     \/ Candidates(log[j][2]) = {}
                     \/ \A i \in Candidates(log[j][2]) :
                            i \notin Covering(log[j][2]) /\ i \notin Containing(log[j][2])
                /\ Cardinality(OnEdge(log[j][2])) = 2 =>
                     \E i \in OnEdge(log[j][2]) : log[j][3] = RowId(i)
                /\ Covering(log[j][2]) # {} =>
                     \E i \in Covering(log[j][2]) : log[j][3] = RowId(i)

\* A sample on the edge shared by two polygons was resolved.
C8_Witness ==
    /\ pc = "loop" /\ Len(log) > 2
    /\ Cardinality(OnEdge(log[Len(log)][2])) = 2
    /\ log[Len(log)][3] # None

Before(l, m) ==
    \/ CountOf(l) > CountOf(m)
    \/ CountOf(l) = CountOf(m) /\ FirstSeen(l) < FirstSeen(m)
RankOf(l) == 1 + Cardinality({m \in TallyLabels : Before(m, l)})

\* C9: labels rank by count, larger first, then by first appearance in the
\* sample sequence; label_id is the first of the ranking and the candidates
\* are its first two labels (one if there is only one), each with its share
\* of the labelled samples.
C9_Ranking ==
    (Resolved /\ Labelled # {}) =>
        /\ Out.label_id # None
        /\ RankOf(Val(Out.label_id)) = 1
        /\ Len(Out.candidates) = Min({2, Cardinality(TallyLabels)})
        /\ \A j \in 1..Len(Out.candidates) :
              /\ Out.candidates[j][1] \in TallyLabels
              /\ RankOf(Out.candidates[j][1]) = j
              /\ Out.candidates[j][2] =
                    Frac(CountOf(Out.candidates[j][1]), Cardinality(Labelled))
        /\ Out.label_id = Some(Out.candidates[1][1])

\* Two labels tie for the largest count.
C9_Witness ==
    /\ Resolved
    /\ \E l, m \in TallyLabels :
          l # m /\ CountOf(l) = TopCount /\ CountOf(m) = TopCount

\* C10: the log of a call is the exact lookup of the original point; then,
\* unless that was absent, the sampler once; then one lookup per sample, in
\* sample order; 1 + n_samples lookups in all when the Outcome is returned.
C10_StageOrder ==
    /\ pc \in {"entry", "exact"} => log = <<>>
    /\ pc = "sample" => Len(log) = 1
    /\ pc = "loop" => Len(log) = 2 + k
    /\ Len(log) >= 1 =>
          /\ log[1][1] = "exact_lookup"
          /\ log[1][2] = <<args.x_m, args.y_m>>
          /\ log[1][3] = None => Len(log) = 1
    /\ Len(log) >= 2 =>
          /\ log[2] = <<"sample_disk">>
          /\ Len(samples) = args.n_samples
          /\ Len(log) <= 2 + args.n_samples
    /\ \A j \in 3..Len(log) :
          /\ log[j][1] = "exact_lookup"
          /\ log[j][2] = samples[j - 2]
    /\ Resolved => Len(log) = 2 + args.n_samples
    /\ (Returned /\ label_orig = None) => Len(log) = 1

\* A call returned after resolving two different samples.
C10_Witness ==
    /\ Resolved
    /\ args.n_samples >= 2
    /\ samples[1] # samples[2]

=============================================================================
